---- MODULE Spec2Model ----
(***************************************************************************)
(* Pipeline execution and metric scoring engine of document_analysis_eval. *)
(*                                                                         *)
(*   src/tools/base_tool.py          BaseTool.run                          *)
(*   src/pipelines/executor.py       PipelineExecutor.__init__, run        *)
(*   src/evaluation/run_evaluation.py  calculate_all_metrics,              *)
(*                                     load_ground_truth, save_results,    *)
(*                                     main                                *)
(*   src/metrics/text_accuracy.py    TextEditDistance.calculate            *)
(*                                                                         *)
(* Costs and latencies are floats in the source; they are modelled as      *)
(* natural numbers of a fixed unit.  Errors raised by tools, by tool       *)
(* loading and by metrics are subclasses of Exception (the only errors the *)
(* handlers of the source name); stage outputs are opaque values 0..MaxData.*)
(* Texts are sequences of characters, and a float that results from a      *)
(* division is the pair of its numerator and denominator.                  *)
(***************************************************************************)
EXTENDS Integers, Sequences, FiniteSets, TLC

\* ------------------------------------------------------------------ bounds
MaxStages == 3
MaxData == 1
MaxCost == 1
MaxElapsed == 1
MaxCalls == 3
MaxMetrics == 3
MaxScore == 1

VARIABLES
    \* PipelineExecutor (src/pipelines/executor.py)
    source,          \* the pipeline definition file handed to __init__
    executor,        \* self.pipeline_name, self.stages
    ctor_error,      \* the error __init__ raised, "none" when it returned
    pc,              \* "new" | "ctor_failed" | "ready" | "loop" | "returned"
    i,               \* 1-based position of the stage loop of run
    initial_input,   \* run's argument
    current_data,
    stage_results,
    total_cost,
    total_latency,
    run_raised,      \* the error that left run, "none" when run returned
    result,          \* the dictionary run returned
    calls,           \* history: every tool_instance.run call of this run
    resolve_failed,  \* history: stage whose _get_tool_instance raised, 0 if none
    \* one long-lived BaseTool instance (src/tools/base_tool.py)
    tool,            \* self._cost, self._latency, class
    tool_out,        \* outcome of the last run call: [raised, ret]
    tool_proc,       \* history: what process did during the last run call
    tool_prev,       \* history: the instance when the last call began, and the
                     \* error the call before it raised
    tool_calls,      \* number of run calls made on the instance
    clock,           \* time.monotonic()
    \* calculate_all_metrics (src/evaluation/run_evaluation.py)
    metrics,         \* the list of metric instances
    m_pc,            \* "loop" | "returned"
    m_i,             \* 1-based position of the metric loop
    metric_results,  \* the mapping under construction, metric name -> result
    m_raised,        \* the error that left calculate_all_metrics, "none" if none
    m_calls,         \* history: positions of the metrics whose calculate was invoked
    \* TextEditDistance.calculate (src/metrics/text_accuracy.py)
    prediction,      \* calculate's first argument
    ground_truth,    \* calculate's second argument
    te_results,      \* the dictionary calculate returned
    te_pc,           \* "idle" | "called" | "returned"
    \* load_ground_truth (src/evaluation/run_evaluation.py)
    gt_file,         \* the JSON file at json_path
    gt_data,         \* the record load_ground_truth returned
    gt_pc,           \* "idle" | "called" | "returned"
    \* main (src/evaluation/run_evaluation.py)
    run_cfg,         \* the evaluation run: pipelines, documents per category,
                     \* pdf_limit_per_category, whether any metric loaded
    d_pc,            \* position of main, "idle" when main is not running
    d_p,             \* 1-based position in pipelines_to_run
    d_c,             \* 1-based position in dataset_categories
    d_k,             \* 1-based position in category_pdfs
    limit,
    doc_gt,          \* ground_truth of the current document
    pipeline_result,
    metrics_result,
    all_aggregated_results,
    summary,         \* whether the aggregated summary was written
    main_raised,     \* the error that left main, "none" if none
    d_log,           \* history: what main did, in order
    \* successive PipelineExecutor.run calls on one executor
    prev_run         \* history: whether a run finished before the current
                     \* one, whether it succeeded and whether it accrued cost

execVars == <<source, executor, ctor_error, pc, i, initial_input, current_data,
              stage_results, total_cost, total_latency, run_raised, result,
              calls, resolve_failed>>
toolVars == <<tool, tool_out, tool_proc, tool_prev, tool_calls, clock>>
metricVars == <<metrics, m_pc, m_i, metric_results, m_raised, m_calls>>
textVars == <<prediction, ground_truth, te_results, te_pc>>
loaderVars == <<gt_file, gt_data, gt_pc>>
driverVars == <<run_cfg, d_pc, d_p, d_c, d_k, limit, doc_gt, pipeline_result,
                metrics_result, all_aggregated_results, summary, main_raised,
                d_log>>
runsVars == <<prev_run>>
extVars == <<textVars, loaderVars, driverVars, runsVars>>
vars == <<execVars, toolVars, metricVars, extVars>>

Last(s) == s[Len(s)]

RECURSIVE SumOver(_, _)
SumOver(s, field) ==
    IF s = <<>> THEN 0 ELSE s[1][field] + SumOver(Tail(s), field)

\* ------------------------------------------------------------ tool contract
Data == 0..MaxData

\* Errors a tool's process may raise.
ToolErrors == {"ValueError", "RuntimeError"}

\* The tool classes a stage can name that are BaseTool subclasses: one that
\* returns its input and one that changes it.
ToolClasses == {"Identity", "Incr"}

\* BaseTool.__init__: cost and latency start at zero.
NewTool(cls) == [cls |-> cls, _cost |-> 0, _latency |-> 0]

\* process of the concrete tool classes: the output for an input.
Process(cls, input_data) ==
    IF cls = "Incr" THEN (input_data + 1) % (MaxData + 1) ELSE input_data

\* The cost a process call of a class may add to self._cost: a local tool such
\* as PyMuPDFExtractor leaves the accumulator alone, a tool that pays per API
\* call adds to it.
ProcessCosts(cls) == IF cls = "Incr" THEN 0..MaxCost ELSE {0}

\* What one process call of a class does besides computing its output: the
\* error it raises ("none" when it returns), the cost it adds to self._cost
\* before returning or raising, and the time it takes.
ProcBehaviours(cls) ==
    [raises : {"none"} \cup ToolErrors, cost : ProcessCosts(cls), elapsed : 0..MaxElapsed]

NoReturn == <<>>

\* BaseTool.run line 38, as a bug would have it: the accumulator is not reset.
ResetCost_kept(self) == self

\* BaseTool.run line 38: self._cost = 0.0
ResetCost(self) == [self EXCEPT !._cost = 0]

\* BaseTool.run lines 47-52, as a bug would have it: the error is swallowed
\* (nothing is raised, nothing is timed).
ProcessFailed_swallowed(self, err, start_time, end_time) ==
    [raised |-> "none", self |-> self, ret |-> NoReturn]

\* BaseTool.run lines 47-52: the except branch times the call and re-raises.
ProcessFailed(self, err, start_time, end_time) ==
    [raised |-> err,
     self   |-> [self EXCEPT !._latency = end_time - start_time],
     ret    |-> NoReturn]

\* BaseTool.run lines 42-43 and 54: process returned; the call is timed and
\* the tuple (output_data, get_cost(), get_latency()) is returned.
ProcessReturned(self, output_data, start_time, end_time) ==
    LET timed == [self EXCEPT !._latency = end_time - start_time]
    IN  [raised |-> "none",
         self   |-> timed,
         ret    |-> <<output_data, timed._cost, timed._latency>>]

\* BaseTool.run: one call on instance self, started when the monotonic clock
\* reads start_time, during which process behaves as proc.
BaseTool_run(self, input_data, start_time, proc) ==
    LET reset    == ResetCost(self)
        \* process may update self._cost before it returns or raises
        during   == [reset EXCEPT !._cost = @ + proc.cost]
        end_time == start_time + proc.elapsed
    IN  IF proc.raises # "none"
        THEN ProcessFailed(during, proc.raises, start_time, end_time)
        ELSE ProcessReturned(during, Process(self.cls, input_data),
                             start_time, end_time)

\* ------------------------------------------------------- pipeline executor
None == "None"

\* The stage records a pipeline definition is built from: with and without a
\* name, with a missing tool_module or tool_class, naming a module that cannot
\* be imported, a class the module does not have, a class that is no BaseTool.
StageConfigs ==
    { [name |-> "extract", tool_module |-> "tools", tool_class |-> "Identity"],
      [name |-> None,      tool_module |-> "tools", tool_class |-> "Incr"],
      [name |-> "nomod",   tool_module |-> None,    tool_class |-> "Identity"],
      [name |-> None,      tool_module |-> "tools", tool_class |-> None],
      [name |-> "absent",  tool_module |-> "nowhere", tool_class |-> "Identity"],
      [name |-> None,      tool_module |-> "tools", tool_class |-> "Ghost"],
      [name |-> "plain",   tool_module |-> "tools", tool_class |-> "NotATool"] }

StageLists == UNION { [1..n -> StageConfigs] : n \in 0..MaxStages }

TopKeys == {"pipeline_name", "stages"}

\* What yaml.safe_load returns: the set of top-level keys present (empty for an
\* empty document or an empty mapping) and the values of the two keys.
Configs ==
    { [keys |-> k, pipeline_name |-> "p", stages |-> <<>>] :
        k \in (SUBSET TopKeys) \ {TopKeys} }
    \cup { [keys |-> TopKeys, pipeline_name |-> "p", stages |-> s] :
        s \in StageLists }

Sources ==
    { [exists |-> FALSE, config |-> [keys |-> {}, pipeline_name |-> "p", stages |-> <<>>]] }
    \cup { [exists |-> TRUE, config |-> c] : c \in Configs }

NoExecutor == [pipeline_name |-> None, stages |-> <<>>]

\* __init__ line 21, as a bug would have it: 'stages' is not required.
ConfigInvalid_nostages(config) ==
    config.keys = {} \/ "pipeline_name" \notin config.keys

\* __init__ line 21: not self.config or a required key is missing.
ConfigInvalid(config) ==
    \/ config.keys = {}
    \/ "pipeline_name" \notin config.keys
    \/ "stages" \notin config.keys

\* PipelineExecutor.__init__
PipelineExecutor_init(src) ==
    IF ~src.exists
    THEN [raised |-> "FileNotFoundError", self |-> NoExecutor]
    ELSE IF ConfigInvalid(src.config)
    THEN [raised |-> "ValueError", self |-> NoExecutor]
    ELSE [raised |-> "none",
          self   |-> [pipeline_name |-> src.config.pipeline_name,
                      stages        |-> src.config.stages]]

\* The import system as _get_tool_instance sees it.
ImportableModules == {"tools"}
ModuleAttributes == ToolClasses \cup {"NotATool"}

\* PipelineExecutor._get_tool_instance: a new instance per call, or the error
\* of the failed import, attribute lookup or subclass check, re-raised.
GetToolInstance(tool_module_path, tool_class_name) ==
    IF tool_module_path \notin ImportableModules
    THEN [raised |-> "ImportError", tool |-> NewTool(None)]
    ELSE IF tool_class_name \notin ModuleAttributes
    THEN [raised |-> "AttributeError", tool |-> NewTool(None)]
    ELSE IF tool_class_name \notin ToolClasses
    THEN [raised |-> "TypeError", tool |-> NewTool(None)]
    ELSE [raised |-> "none", tool |-> NewTool(tool_class_name)]

\* run line 66: stage_config.get('name', f'stage_{i+1}'), k the 1-based
\* position; a configured name is paired with 0, a default one with k.
StageName(stage_config, k) ==
    IF stage_config.name = None THEN <<"stage", k>> ELSE <<stage_config.name, 0>>

\* run line 71: not tool_module or not tool_class
MissingLocator(stage_config) ==
    stage_config.tool_module = None \/ stage_config.tool_class = None

\* run lines 81-86: the entry appended for a completed stage
StageResult(stage_name, ret) ==
    [name |-> stage_name, output |-> ret[1], cost |-> ret[2], latency |-> ret[3]]

\* run line 87, as a bug would have it: the total is overwritten, not added to.
AddCost_overwrite(total, cost) == cost

\* run lines 87-88: total += value
AddCost(total, cost) == total + cost

\* run line 89, as a bug would have it: the next stage gets the old input.
NextData_stale(data, output_data) == data

\* run line 89: current_data = output_data
NextData(data, output_data) == output_data

\* run line 95, as a bug would have it: continue with the next stage.
AfterStageFailure_continue(k, n) == k + 1

\* run lines 91-95: the except branch breaks out of the loop; the loop position
\* after it is past the last of the n stages.
AfterStageFailure(k, n) == n + 1

\* run line 107, as a bug would have it: any completed stage counts as success.
Success_any(results, stages) == Len(results) > 0 \/ Len(stages) = 0

\* run line 107: len(stage_results) == len(self.stages)
Success(results, stages) == Len(results) = Len(stages)

\* run line 103, as a bug would have it: the output of the first stage.
FinalOutput_first(data, results) ==
    IF results = <<>> THEN data ELSE results[1].output

\* run line 103: 'final_output': current_data
FinalOutput(data, results) == data

\* run lines 101-108: the returned dictionary
RunResult(self, data, results, cost, latency) ==
    [pipeline_name |-> self.pipeline_name,
     final_output  |-> FinalOutput(data, results),
     stages        |-> results,
     total_cost    |-> cost,
     total_latency |-> latency,
     success       |-> Success(results, self.stages)]

NoResult ==
    [pipeline_name |-> None, final_output |-> 0, stages |-> <<>>,
     total_cost |-> 0, total_latency |-> 0, success |-> FALSE]

\* ------------------------------------------------------------ metric runner
\* A Python dict as a function; {} and d[k] = v.
EmptyDict == [k \in {} |-> <<>>]

DictSet(d, k, v) == [x \in (DOMAIN d) \cup {k} |-> IF x = k THEN v ELSE d[x]]

MetricNames == {"m1", "m2", "m3"}

\* A result stored for a metric: the None sentinel, or the score calculate
\* returned (a score of 0 is not the sentinel).
NoneScore == <<>>
Score(v) == <<v>>

\* A metric instance: its name property and what its calculate does on the
\* prediction and ground truth of this document (raise, or return a score).
MetricInstances ==
    [name : MetricNames, raises : {TRUE}, score : {0}]
    \cup [name : MetricNames, raises : {FALSE}, score : 0..MaxScore]

MetricLists == UNION { [1..n -> MetricInstances] : n \in 0..MaxMetrics }

\* calculate_all_metrics line 72, as a bug would have it: a result already
\* stored under the name is kept.
MetricScored_keepfirst(results, name, score) ==
    IF name \in DOMAIN results THEN results ELSE DictSet(results, name, Score(score))

\* calculate_all_metrics line 72: metric_results[metric.name] = score
MetricScored(results, name, score) == DictSet(results, name, Score(score))

\* calculate_all_metrics line 76: metric_results[metric.name] = None
MetricFailed(results, name) == DictSet(results, name, NoneScore)

\* calculate_all_metrics lines 74-76, as a bug would have it: the loop is left
\* when a metric raises.
AfterMetricFailure_abort(k, n) == n + 1

\* calculate_all_metrics lines 65, 74-76: after the except branch the loop goes
\* on with the next of the n metrics.
AfterMetricFailure(k, n) == k + 1

\* ---------------------------------------------------- executor: the actions
\* run lines 61-62, as a bug would have it: a total is an attribute of the
\* executor that run goes on adding to.
FreshTotal_carried(carried) == carried

\* run lines 61-62: total_cost = 0.0 and total_latency = 0.0 are locals of
\* the call, whatever an earlier call left.
FreshTotal(carried) == 0

\* The history entry of one tool_instance.run call made by stage k on input x
\* with outcome r: whether it raised, the tuple it returned, and the cost the
\* instance had accrued when the call ended.
CallRecord(k, x, r) ==
    [stage |-> k, input |-> x, raised |-> (r.raised # "none"), ret |-> r.ret,
     spent |-> r.self._cost]

ExecInit ==
    /\ source \in Sources
    /\ executor = NoExecutor
    /\ ctor_error = "none"
    /\ pc = "new"
    /\ i = 1
    /\ initial_input = 0
    /\ current_data = 0
    /\ stage_results = <<>>
    /\ total_cost = 0
    /\ total_latency = 0
    /\ run_raised = "none"
    /\ result = NoResult
    /\ calls = <<>>
    /\ resolve_failed = 0

ToolIdle ==
    /\ tool = NewTool("Identity")
    /\ tool_out = [raised |-> "none", ret |-> NoReturn]
    /\ tool_proc = [raises |-> "none", cost |-> 0, elapsed |-> 0]
    /\ tool_prev = [self |-> NewTool("Identity"), raised |-> "none"]
    /\ tool_calls = 0
    /\ clock = 0

MetricsIdle ==
    /\ metrics = <<>>
    /\ m_pc = "loop"
    /\ m_i = 1
    /\ metric_results = EmptyDict
    /\ m_raised = "none"
    /\ m_calls = <<>>

\* No TextEditDistance.calculate call is in progress.
TextIdle ==
    /\ prediction = None
    /\ ground_truth = None
    /\ te_results = EmptyDict
    /\ te_pc = "idle"

\* No load_ground_truth call is in progress.
LoaderIdle ==
    /\ gt_file = None
    /\ gt_data = None
    /\ gt_pc = "idle"

\* main is not running.
DriverIdle ==
    /\ run_cfg = None
    /\ d_pc = "idle"
    /\ d_p = 0
    /\ d_c = 0
    /\ d_k = 0
    /\ limit = None
    /\ doc_gt = None
    /\ pipeline_result = None
    /\ metrics_result = None
    /\ all_aggregated_results = <<>>
    /\ summary = FALSE
    /\ main_raised = "none"
    /\ d_log = <<>>

\* No run of the executor has finished yet.
NoPrevRun == [ran |-> FALSE, success |-> FALSE, spent |-> FALSE]

RunsIdle == prev_run = NoPrevRun

ExtIdle == TextIdle /\ LoaderIdle /\ DriverIdle /\ RunsIdle

\* PipelineExecutor(pipeline_config_path)
Construct ==
    /\ pc = "new"
    /\ LET made == PipelineExecutor_init(source)
       IN  /\ ctor_error' = made.raised
           /\ executor' = made.self
           /\ pc' = IF made.raised = "none" THEN "ready" ELSE "ctor_failed"
    /\ UNCHANGED <<source, i, initial_input, current_data, stage_results,
                   total_cost, total_latency, run_raised, result, calls,
                   resolve_failed>>
    /\ UNCHANGED <<toolVars, metricVars, extVars>>

\* run lines 59-62: a call of run(x, context) begins
RunStart ==
    /\ pc = "ready"
    /\ \E x \in Data :
        /\ initial_input' = x
        /\ current_data' = x
    /\ stage_results' = <<>>
    /\ total_cost' = FreshTotal(total_cost)
    /\ total_latency' = FreshTotal(total_latency)
    /\ i' = 1
    /\ pc' = "loop"
    /\ run_raised' = "none"
    /\ result' = NoResult
    /\ calls' = <<>>
    /\ resolve_failed' = 0
    /\ UNCHANGED <<source, executor, ctor_error>>
    /\ UNCHANGED <<toolVars, metricVars, extVars>>

\* run lines 66-73: a stage without tool_module or tool_class is skipped
StageSkip ==
    /\ pc = "loop"
    /\ i <= Len(executor.stages)
    /\ MissingLocator(executor.stages[i])
    /\ i' = i + 1
    /\ UNCHANGED <<source, executor, ctor_error, pc, initial_input, current_data,
                   stage_results, total_cost, total_latency, run_raised, result,
                   calls, resolve_failed>>
    /\ UNCHANGED <<toolVars, metricVars, extVars>>

\* run lines 76-77 and 91-95: _get_tool_instance raises inside the try block;
\* the except branch catches it and breaks
StageResolveFail ==
    /\ pc = "loop"
    /\ i <= Len(executor.stages)
    /\ LET stage_config == executor.stages[i]
       IN  /\ ~MissingLocator(stage_config)
           /\ GetToolInstance(stage_config.tool_module,
                              stage_config.tool_class).raised # "none"
    /\ resolve_failed' = i
    /\ i' = AfterStageFailure(i, Len(executor.stages))
    /\ UNCHANGED <<source, executor, ctor_error, pc, initial_input, current_data,
                   stage_results, total_cost, total_latency, run_raised, result,
                   calls>>
    /\ UNCHANGED <<toolVars, metricVars, extVars>>

\* run lines 76-89: the tool is instantiated, its run returns, the stage result
\* is appended, the totals grow and the output becomes the next stage's input
StageRunOk ==
    /\ pc = "loop"
    /\ i <= Len(executor.stages)
    /\ LET stage_config == executor.stages[i]
           got == GetToolInstance(stage_config.tool_module, stage_config.tool_class)
       IN  /\ ~MissingLocator(stage_config)
           /\ got.raised = "none"
           /\ \E proc \in ProcBehaviours(got.tool.cls) :
               LET r == BaseTool_run(got.tool, current_data, clock, proc)
               IN  /\ r.raised = "none"
                   /\ r.ret # NoReturn
                   /\ stage_results' =
                        Append(stage_results, StageResult(StageName(stage_config, i), r.ret))
                   /\ total_cost' = AddCost(total_cost, r.ret[2])
                   /\ total_latency' = AddCost(total_latency, r.ret[3])
                   /\ current_data' = NextData(current_data, r.ret[1])
                   /\ calls' = Append(calls, CallRecord(i, current_data, r))
    /\ i' = i + 1
    /\ UNCHANGED <<source, executor, ctor_error, pc, initial_input, run_raised,
                   result, resolve_failed>>
    /\ UNCHANGED <<toolVars, metricVars, extVars>>

\* run lines 76-78 and 91-95: the tool's run raises; the except branch catches
\* the error and breaks
StageRunFail ==
    /\ pc = "loop"
    /\ i <= Len(executor.stages)
    /\ LET stage_config == executor.stages[i]
           got == GetToolInstance(stage_config.tool_module, stage_config.tool_class)
       IN  /\ ~MissingLocator(stage_config)
           /\ got.raised = "none"
           /\ \E proc \in ProcBehaviours(got.tool.cls) :
               LET r == BaseTool_run(got.tool, current_data, clock, proc)
               IN  /\ r.raised # "none"
                   /\ calls' = Append(calls, CallRecord(i, current_data, r))
    /\ i' = AfterStageFailure(i, Len(executor.stages))
    /\ UNCHANGED <<source, executor, ctor_error, pc, initial_input, current_data,
                   stage_results, total_cost, total_latency, run_raised, result,
                   resolve_failed>>
    /\ UNCHANGED <<toolVars, metricVars, extVars>>

\* run lines 97-108: the loop is over (exhausted or broken out of); the result
\* dictionary is returned
RunReturn ==
    /\ pc = "loop"
    /\ i > Len(executor.stages)
    /\ result' = RunResult(executor, current_data, stage_results,
                           total_cost, total_latency)
    /\ pc' = "returned"
    /\ UNCHANGED <<source, executor, ctor_error, i, initial_input, current_data,
                   stage_results, total_cost, total_latency, run_raised, calls,
                   resolve_failed>>
    /\ UNCHANGED <<toolVars, metricVars, extVars>>

\* The caller has the returned dictionary (run_evaluation.py line 200); the
\* locals of the finished call are gone and the executor can be run again.
ResultTaken ==
    /\ pc = "returned"
    /\ pc' = "ready"
    /\ i' = 1
    /\ initial_input' = 0
    /\ current_data' = 0
    /\ stage_results' = <<>>
    /\ total_cost' = 0
    /\ total_latency' = 0
    /\ result' = NoResult
    /\ calls' = <<>>
    /\ resolve_failed' = 0
    /\ UNCHANGED <<source, executor, ctor_error, run_raised>>
    /\ UNCHANGED <<toolVars, metricVars, extVars>>

Init == ExecInit /\ ToolIdle /\ MetricsIdle /\ ExtIdle

Next ==
    \/ Construct
    \/ RunStart
    \/ StageSkip
    \/ StageResolveFail
    \/ StageRunOk
    \/ StageRunFail
    \/ RunReturn
    \/ ResultTaken

Spec == Init /\ [][Next]_vars

\* ------------------------------------------------ executor: the properties
\* The tool calls of the current run that returned, in call order.
Completed == SelectSeq(calls, LAMBDA c : ~c.raised)

\* The stage of the first tool call of the current run that raised, 0 if none.
FirstRaise ==
    IF \E j \in 1..Len(calls) : calls[j].raised
    THEN calls[CHOOSE j \in 1..Len(calls) :
                 calls[j].raised /\ \A l \in 1..(j - 1) : ~calls[l].raised].stage
    ELSE 0

\* The stages whose tool was invoked and returned.
StagesCompleted == { calls[j].stage : j \in { l \in 1..Len(calls) : ~calls[l].raised } }

\* What run appends for a call that returned.
ResultOfCall(c) == StageResult(StageName(executor.stages[c.stage], c.stage), c.ret)

\* C1 (failure truncation): when stage k is the first stage whose tool.run
\* raises, run returns normally with success false, the stage results are
\* exactly the results of the calls that returned, all of stages before k and in
\* declared order, final_output is the last of their outputs (initial_input when
\* there is none), and no stage after k has its tool invoked.
C1_FailureTruncation ==
    pc = "returned" =>
        LET k    == FirstRaise
            done == Completed
        IN  k # 0 =>
            /\ run_raised = "none"
            /\ result.success = FALSE
            /\ Len(result.stages) = Len(done)
            /\ \A j \in 1..Len(done) :
                /\ done[j].stage < k
                /\ result.stages[j] = ResultOfCall(done[j])
                /\ \A l \in 1..(j - 1) : done[l].stage < done[j].stage
            /\ result.final_output =
                 IF done = <<>> THEN initial_input ELSE Last(done).ret[1]
            /\ \A j \in 1..Len(calls) : calls[j].stage <= k

\* C1 witness: S1 returns, S2 raises, S3 is declared with a loadable tool.
C1_Witness ==
    /\ pc = "returned"
    /\ Len(executor.stages) = 3
    /\ \A k \in 1..3 : executor.stages[k].tool_class \in ToolClasses
                       /\ ~MissingLocator(executor.stages[k])
                       /\ executor.stages[k].tool_module \in ImportableModules
    /\ FirstRaise = 2
    /\ Len(result.stages) = 1
    /\ result.final_output # initial_input

\* Every declared stage had its tool invoked and the call returned.
AllStagesSucceeded ==
    /\ pc = "returned"
    /\ \A k \in 1..Len(executor.stages) : k \in StagesCompleted

\* C2 (stage chaining): when every declared stage succeeds, each stage is
\* executed exactly once and in declared order, the first stage receives
\* initial_input and every later stage the output of the stage before it (each
\* output being what the stage's tool computes for that input), final_output is
\* the last stage's output, success is true, and a pipeline of identity tools
\* returns its input.
C2_StageChaining ==
    AllStagesSucceeded =>
        LET n == Len(executor.stages)
        IN  /\ Len(calls) = n
            /\ \A k \in 1..n :
                /\ calls[k].stage = k
                /\ calls[k].input = IF k = 1 THEN initial_input ELSE calls[k - 1].ret[1]
                /\ calls[k].ret[1] = Process(executor.stages[k].tool_class, calls[k].input)
            /\ result.final_output = IF n = 0 THEN initial_input ELSE calls[n].ret[1]
            /\ result.success = TRUE
            /\ (\A k \in 1..n : executor.stages[k].tool_class = "Identity")
                 => result.final_output = initial_input

\* C2 witness: three stages all succeed and the data changed on the way.
C2_Witness ==
    /\ AllStagesSucceeded
    /\ Len(executor.stages) = 3
    /\ calls[2].input # initial_input
    /\ calls[3].input # calls[2].input
    /\ result.success

\* C3 (cost/latency aggregation): in every returned result, complete or
\* truncated, total_cost is the sum of the cost fields of the returned stage
\* results and total_latency the sum of their latency fields, and both are the
\* sums over the calls that returned: a call that raised adds nothing.
C3_Aggregation ==
    pc = "returned" =>
        LET done == Completed
        IN  /\ result.total_cost = SumOver(result.stages, "cost")
            /\ result.total_latency = SumOver(result.stages, "latency")
            /\ result.total_cost =
                 SumOver([j \in 1..Len(done) |-> [cost |-> done[j].ret[2]]], "cost")
            /\ result.total_latency =
                 SumOver([j \in 1..Len(done) |-> [latency |-> done[j].ret[3]]], "latency")

\* C3 witness: two stages with non-zero cost and latency completed, then a
\* stage raised after its tool had accrued cost.
C3_Witness ==
    /\ pc = "returned"
    /\ Len(result.stages) = 2
    /\ \A j \in 1..2 : result.stages[j].cost > 0 /\ result.stages[j].latency > 0
    /\ \E j \in 1..Len(calls) : calls[j].raised /\ calls[j].spent > 0
    /\ result.total_cost = 2

\* C5 (as claimed): a tool resolution failure propagates out of run; no run in
\* which _get_tool_instance raised returns a result.
C5_ResolutionFailurePropagates ==
    ~(pc = "returned" /\ resolve_failed # 0 /\ run_raised = "none")

\* C6 (success flag): the returned success flag is true exactly when every
\* declared stage had its tool invoked and the call returned, which is exactly
\* when as many stage results were returned as stages are declared.
C6_SuccessFlag ==
    pc = "returned" =>
        LET done == StagesCompleted
        IN  /\ result.success <=> (\A k \in 1..Len(executor.stages) : k \in done)
            /\ result.success <=> (Len(result.stages) = Len(executor.stages))
            /\ result.success <=> (Cardinality(done) = Len(executor.stages))

\* C6 witness: a truncated run with two completed stages is reported failed.
C6_Witness ==
    /\ pc = "returned"
    /\ Len(executor.stages) = 3
    /\ Len(result.stages) = 2
    /\ FirstRaise = 3
    /\ result.success = FALSE

\* What final_output has to be for a sequence of stage results.
LastOutput(results) ==
    IF results = <<>> THEN initial_input ELSE Last(results).output

\* C7 (final_output invariant): a returned result's final_output is the output
\* of its last stage result, or initial_input when it has none; at the head of
\* every iteration of the stage loop current_data stands in the same relation
\* to stage_results, also after skipped and failed stages.
C7_FinalOutput ==
    /\ pc = "returned" => result.final_output = LastOutput(result.stages)
    /\ pc = "loop" => current_data = LastOutput(stage_results)

\* C7 witness: a stage was skipped, a stage completed and changed the data,
\* and a later stage failed.
C7_Witness ==
    /\ pc = "returned"
    /\ \E k \in 1..Len(executor.stages) : MissingLocator(executor.stages[k]) /\ k < FirstRaise
    /\ FirstRaise # 0
    /\ Len(result.stages) >= 1
    /\ result.final_output # initial_input

\* The pipeline definition source is missing or lacks a required key.
SourceMissingOrLacksKey ==
    \/ ~source.exists
    \/ "pipeline_name" \notin source.config.keys
    \/ "stages" \notin source.config.keys

\* C8 (as claimed): construction fails when the source is missing, lacks
\* pipeline_name, lacks stages or has an empty stage list, and no executor with
\* an empty stage list is ever run.
C8_EmptyStageListRejected ==
    /\ (pc # "new" /\ (SourceMissingOrLacksKey \/ source.config.stages = <<>>))
         => ctor_error # "none"
    /\ pc \in {"loop", "returned"} => executor.stages # <<>>

\* C8 (amended): construction fails, and the executor never runs, exactly when
\* the source is missing (FileNotFoundError) or lacks pipeline_name or stages
\* (ValueError); a stage list that is present but empty is accepted, and a run
\* of that executor invokes no tool and returns final_output = initial_input
\* with success true.
C8_ConstructionValidation ==
    /\ pc # "new" =>
        /\ (ctor_error # "none") <=> SourceMissingOrLacksKey
        /\ ~source.exists => ctor_error = "FileNotFoundError"
        /\ (source.exists /\ SourceMissingOrLacksKey) => ctor_error = "ValueError"
        /\ (ctor_error # "none") <=> (pc = "ctor_failed")
        /\ ctor_error = "none" =>
             /\ executor.stages = source.config.stages
             /\ executor.pipeline_name = source.config.pipeline_name
    /\ (pc = "returned" /\ executor.stages = <<>>) =>
        /\ calls = <<>>
        /\ result.final_output = initial_input
        /\ result.success = TRUE

\* C8 witness: an executor built from a definition with an empty stage list
\* has run and reported success.
C8_Witness ==
    /\ pc = "returned"
    /\ source.exists
    /\ source.config.keys = TopKeys
    /\ executor.stages = <<>>
    /\ result.success = TRUE

\* ------------------------------------- one tool instance called repeatedly
\* The executor is not involved: its variables rest.
ExecIdle ==
    /\ source = [exists |-> FALSE,
                 config |-> [keys |-> {}, pipeline_name |-> "p", stages |-> <<>>]]
    /\ executor = NoExecutor
    /\ ctor_error = "none"
    /\ pc = "new"
    /\ i = 1
    /\ initial_input = 0
    /\ current_data = 0
    /\ stage_results = <<>>
    /\ total_cost = 0
    /\ total_latency = 0
    /\ run_raised = "none"
    /\ result = NoResult
    /\ calls = <<>>
    /\ resolve_failed = 0

\* tool_class(config=tool_config): a new instance of a tool class
ToolInit ==
    /\ tool \in { NewTool(cls) : cls \in ToolClasses }
    /\ tool_out = [raised |-> "none", ret |-> NoReturn]
    /\ tool_proc = [raises |-> "none", cost |-> 0, elapsed |-> 0]
    /\ tool_prev = [self |-> tool, raised |-> "none"]
    /\ tool_calls = 0
    /\ clock = 0

\* One call tool.run(x, context) during which process behaves as proc.
ToolCall(x, proc) ==
    /\ tool_calls < MaxCalls
    /\ LET r == BaseTool_run(tool, x, clock, proc)
       IN  /\ tool' = r.self
           /\ tool_out' = [raised |-> r.raised, ret |-> r.ret]
    /\ tool_proc' = proc
    /\ tool_prev' = [self |-> tool, raised |-> tool_out.raised]
    /\ tool_calls' = tool_calls + 1
    /\ clock' = clock + proc.elapsed
    /\ UNCHANGED <<execVars, metricVars, extVars>>

\* BaseTool.run, process returns
ToolRunReturns ==
    \E x \in Data, proc \in ProcBehaviours(tool.cls) :
        proc.raises = "none" /\ ToolCall(x, proc)

\* BaseTool.run, process raises
ToolRunRaises ==
    \E x \in Data, proc \in ProcBehaviours(tool.cls) :
        proc.raises # "none" /\ ToolCall(x, proc)

ToolNext == ToolRunReturns \/ ToolRunRaises

InitTool == ExecIdle /\ ToolInit /\ MetricsIdle /\ ExtIdle

SpecTool == InitTool /\ [][ToolNext]_vars

\* C9 (run does not swallow tool errors): after a call in which process raised,
\* run has raised that same error and returned no tuple; and after every call,
\* returned or raised, the instance's latency is the time that call took.
C9_RunReraises ==
    tool_calls > 0 =>
        /\ tool_proc.raises # "none" =>
             /\ tool_out.raised = tool_proc.raises
             /\ tool_out.ret = NoReturn
        /\ tool_proc.raises = "none" =>
             /\ tool_out.raised = "none"
             /\ tool_out.ret # NoReturn
             /\ tool_out.ret[3] = tool_proc.elapsed
        /\ tool._latency = tool_proc.elapsed

\* C9 witness: a later call raised and left a latency other than the one the
\* instance held before.
C9_Witness ==
    /\ tool_calls >= 2
    /\ tool_proc.raises # "none"
    /\ tool_out.raised = tool_proc.raises
    /\ tool._latency # tool_prev.self._latency

\* C10 (cost accumulator reset): the cost a call returns is the cost process
\* added during that call, whatever the instance had accrued before.
C10_CostReset ==
    (tool_calls > 0 /\ tool_proc.raises = "none") =>
        /\ tool_out.ret # NoReturn
        /\ tool_out.ret[2] = tool_proc.cost
        /\ tool._cost = tool_proc.cost

\* C10 witness: the call before failed, the instance still held the cost that
\* call had accrued, and the next call returned a cost of its own.
C10_Witness ==
    /\ tool_calls >= 2
    /\ tool_prev.raised # "none"
    /\ tool_prev.self._cost > 0
    /\ tool_proc.raises = "none"
    /\ tool_out.ret # NoReturn
    /\ tool_out.ret[2] = tool_proc.cost
    /\ tool_out.ret[2] # tool_prev.self._cost

\* ------------------------------------------------- calculate_all_metrics
\* A call calculate_all_metrics(metrics, prediction, ground_truth) begins
\* (lines 61-64).
MetricsInit ==
    /\ metrics \in MetricLists
    /\ m_pc = "loop"
    /\ m_i = 1
    /\ metric_results = EmptyDict
    /\ m_raised = "none"
    /\ m_calls = <<>>

\* lines 66-73: calculate returns and the score is stored under the name
MetricReturns ==
    /\ m_pc = "loop"
    /\ m_i <= Len(metrics)
    /\ ~metrics[m_i].raises
    /\ metric_results' = MetricScored(metric_results, metrics[m_i].name, metrics[m_i].score)
    /\ m_calls' = Append(m_calls, m_i)
    /\ m_i' = m_i + 1
    /\ UNCHANGED <<metrics, m_pc, m_raised>>
    /\ UNCHANGED <<execVars, toolVars, extVars>>

\* lines 66-71, 74-76: calculate raises, the except branch stores None
MetricRaises ==
    /\ m_pc = "loop"
    /\ m_i <= Len(metrics)
    /\ metrics[m_i].raises
    /\ metric_results' = MetricFailed(metric_results, metrics[m_i].name)
    /\ m_calls' = Append(m_calls, m_i)
    /\ m_i' = AfterMetricFailure(m_i, Len(metrics))
    /\ UNCHANGED <<metrics, m_pc, m_raised>>
    /\ UNCHANGED <<execVars, toolVars, extVars>>

\* line 77: return metric_results
MetricsReturn ==
    /\ m_pc = "loop"
    /\ m_i > Len(metrics)
    /\ m_pc' = "returned"
    /\ UNCHANGED <<metrics, m_i, metric_results, m_raised, m_calls>>
    /\ UNCHANGED <<execVars, toolVars, extVars>>

MetricsNext == MetricReturns \/ MetricRaises \/ MetricsReturn

InitMetrics == ExecIdle /\ ToolIdle /\ MetricsInit /\ ExtIdle

SpecMetrics == InitMetrics /\ [][MetricsNext]_vars

\* The configured metric names are pairwise distinct.
DistinctNames ==
    \A k, l \in 1..Len(metrics) : metrics[k].name = metrics[l].name => k = l

\* What calculate did for the metric at position k, as a stored result.
OutcomeOf(k) == IF metrics[k].raises THEN NoneScore ELSE Score(metrics[k].score)

\* C4 (as claimed): for any list of metrics, the returned mapping has every
\* raising metric at None and every other metric at the value it returned.
C4_IsolationAnyList ==
    m_pc = "returned" =>
        /\ m_raised = "none"
        /\ DOMAIN metric_results = { metrics[k].name : k \in 1..Len(metrics) }
        /\ \A k \in 1..Len(metrics) : metric_results[metrics[k].name] = OutcomeOf(k)

\* C4 (amended): for any list of metrics calculate_all_metrics raises nothing,
\* invokes every metric in list order whichever of them raise, and returns a
\* mapping whose keys are the configured names; when the names are pairwise
\* distinct it maps each raising metric to None and every other metric to the
\* value its calculate returned.
C4_MetricIsolation ==
    m_pc = "returned" =>
        /\ m_raised = "none"
        /\ m_calls = [k \in 1..Len(metrics) |-> k]
        /\ DOMAIN metric_results = { metrics[k].name : k \in 1..Len(metrics) }
        /\ DistinctNames =>
             \A k \in 1..Len(metrics) : metric_results[metrics[k].name] = OutcomeOf(k)

\* C4 witness: three metrics with distinct names, the first and the last
\* raise, the one between them returns a non-zero score.
C4_Witness ==
    /\ m_pc = "returned"
    /\ Len(metrics) = 3
    /\ DistinctNames
    /\ metrics[1].raises /\ metrics[3].raises
    /\ ~metrics[2].raises /\ metrics[2].score > 0
    /\ metric_results[metrics[1].name] = NoneScore
    /\ metric_results[metrics[2].name] = Score(metrics[2].score)

\* ------------------------------------------- TextEditDistance.calculate
\* Bounds of the texts and unit lists the metric is applied to.
MaxTextLen == 2
MaxUnits == 2

Chars == {"a", "b"}
NL == "\n"

\* Python values that stand where a text is expected: a str (its characters
\* as a sequence) or None.
Str(s) == [type |-> "str", s |-> s]
PyNone == [type |-> "NoneType", s |-> <<>>]
EmptyStr == Str(<<>>)

\* bool(x) of a str or None
Truthy(x) == x.type = "str" /\ x.s # <<>>

Min2(a, b) == IF a <= b THEN a ELSE b
Max2(a, b) == IF a >= b THEN a ELSE b

\* Levenshtein.distance(a, b) of the python-Levenshtein package on two str:
\* the least number of single-character insertions, deletions and
\* substitutions turning a into b.
RECURSIVE EditDistance(_, _)
EditDistance(a, b) ==
    IF a = <<>> THEN Len(b)
    ELSE IF b = <<>> THEN Len(a)
    ELSE IF Head(a) = Head(b) THEN EditDistance(Tail(a), Tail(b))
    ELSE 1 + Min2(EditDistance(Tail(a), Tail(b)),
                  Min2(EditDistance(Tail(a), b), EditDistance(a, Tail(b))))

\* Levenshtein.distance(x, y) as called at text_accuracy.py 43 and 69: a
\* TypeError unless both arguments are str.
Levenshtein_distance(x, y) ==
    IF x.type = "str" /\ y.type = "str"
    THEN [raised |-> "none", value |-> EditDistance(x.s, y.s)]
    ELSE [raised |-> "TypeError", value |-> 0]

\* A float as the quotient num / den of two integers, den > 0.
Float(n) == [num |-> n, den |-> 1]
FloatEq(x, y) == x.num * y.den = y.num * x.den

\* distance / max_len (true division): ZeroDivisionError on a zero divisor
TrueDiv(n, d) ==
    IF d = 0 THEN [raised |-> "ZeroDivisionError", value |-> Float(0)]
    ELSE [raised |-> "none", value |-> [num |-> n, den |-> d]]

\* The values calculate is handed: a str, a dict with the keys `keys` out of
\* text and content_units, or a value of another type.
StrValue(t) ==
    [type |-> "str", keys |-> {}, text |-> Str(t), content_units |-> <<>>]
OtherValue ==
    [type |-> "other", keys |-> {}, text |-> PyNone, content_units |-> <<>>]
DictValue(keys, t, units) ==
    [type |-> "dict", keys |-> keys,
     text |-> IF "text" \in keys THEN t ELSE PyNone,
     content_units |-> IF "content_units" \in keys THEN units ELSE <<>>]

\* An entry of a content_units list: a dict with or without a text key, or an
\* entry that is not a dict.
UnitWithText(t) == [type |-> "dict", keys |-> {"text"}, text |-> Str(t)]
UnitWithoutText == [type |-> "dict", keys |-> {}, text |-> PyNone]
NonRecordUnit == [type |-> "other", keys |-> {}, text |-> PyNone]

\* text_accuracy.py 24-28, as a bug would have it: the text field of a
\* structured prediction is not read.
PredText_stronly(p) ==
    IF p.type = "str" THEN p.text ELSE EmptyStr

\* text_accuracy.py 24-28: pred_text
PredText(p) ==
    IF p.type = "str" THEN p.text
    ELSE IF p.type = "dict" /\ "text" \in p.keys THEN p.text
    ELSE EmptyStr

\* text_accuracy.py 31-35, as a bug would have it: the text field is read
\* without the check, None standing for a missing one.
GtText_unchecked(g) == g.text

\* text_accuracy.py 31-35: gt_text
GtText(g) ==
    IF g.type # "dict" \/ "text" \notin g.keys THEN EmptyStr ELSE g.text

\* text_accuracy.py 46, as a bug would have it: the length is not clamped.
MaxLenOf_unclamped(t) == Len(t.s)

\* text_accuracy.py 46 and 70: max(len(gt_text), 1)
MaxLenOf(t) == Max2(Len(t.s), 1)

\* text_accuracy.py 38-51: the two text entries of the results
TextDistances(pred_text, gt_text) ==
    IF ~Truthy(gt_text) /\ ~Truthy(pred_text)
    THEN [raw |-> Float(0), normalized |-> Float(0)]
    ELSE LET d == Levenshtein_distance(pred_text, gt_text)
             q == TrueDiv(d.value, MaxLenOf(gt_text))
         IN  IF d.raised # "none" \/ q.raised # "none"
             THEN [raw |-> Float(-1), normalized |-> Float(-1)]
             ELSE [raw |-> Float(d.value), normalized |-> q.value]

\* "\n".join(parts) on a sequence of character sequences
RECURSIVE JoinNL(_)
JoinNL(parts) ==
    IF parts = <<>> THEN <<>>
    ELSE IF Len(parts) = 1 THEN parts[1]
    ELSE parts[1] \o <<NL>> \o JoinNL(Tail(parts))

\* text_accuracy.py 65-66, as a bug would have it: an entry that is not a
\* dict contributes an empty text instead of being left out.
RECURSIVE UnitTexts_keepall(_)
UnitTexts_keepall(units) ==
    IF units = <<>> THEN <<>>
    ELSE LET u == Head(units)
         IN  <<IF u.type = "dict" /\ "text" \in u.keys THEN u.text.s ELSE <<>>>>
             \o UnitTexts_keepall(Tail(units))

\* text_accuracy.py 65-66: [u.get("text", "") for u in units if isinstance(u, dict)]
RECURSIVE UnitTexts(_)
UnitTexts(units) ==
    IF units = <<>> THEN <<>>
    ELSE LET u == Head(units)
         IN  (IF u.type # "dict" THEN <<>>
              ELSE IF "text" \in u.keys THEN <<u.text.s>> ELSE << <<>> >>)
             \o UnitTexts(Tail(units))

\* text_accuracy.py 54-55: the condition of the unit-level comparison
BothHaveUnits(p, g) ==
    /\ p.type = "dict" /\ "content_units" \in p.keys
    /\ g.type = "dict" /\ "content_units" \in g.keys

\* text_accuracy.py 14-75: TextEditDistance.calculate(prediction, ground_truth)
TextEditDistance_calculate(p, g) ==
    LET t == TextDistances(PredText(p), GtText(g))
        r1 == DictSet(EmptyDict, "raw_text_distance", t.raw)
        r2 == DictSet(r1, "normalized_distance", t.normalized)
    IN  IF BothHaveUnits(p, g)
        THEN LET pred_concat == Str(JoinNL(UnitTexts(p.content_units)))
                 gt_concat == Str(JoinNL(UnitTexts(g.content_units)))
                 unit_distance == Levenshtein_distance(pred_concat, gt_concat).value
                 unit_normalized == TrueDiv(unit_distance, MaxLenOf(gt_concat)).value
                 r3 == DictSet(r2, "unit_text_distance", Float(unit_distance))
             IN  DictSet(r3, "unit_normalized_distance", unit_normalized)
        ELSE r2

\* The inputs of the text-level comparison: every text up to MaxTextLen, None
\* in place of a text, each key present or absent.
Texts == UNION { [1..n -> Chars] : n \in 0..MaxTextLen }
TextValues == { Str(t) : t \in Texts } \cup {PyNone}
SampleUnits == <<UnitWithText(<<"a">>)>>
DictsOfTexts ==
    { DictValue(k, t, SampleUnits) :
        k \in SUBSET {"text", "content_units"}, t \in TextValues }
PredictionsOfTexts == { StrValue(t) : t \in Texts } \cup {OtherValue} \cup DictsOfTexts
GroundTruthsOfTexts == {StrValue(<<"a">>), OtherValue} \cup DictsOfTexts

\* The inputs of the unit-level comparison: every list of up to MaxUnits
\* entries, content_units present or absent on either side.
UnitKinds ==
    {UnitWithText(<<"a">>), UnitWithText(<<"b">>), UnitWithoutText, NonRecordUnit}
UnitLists == UNION { [1..n -> UnitKinds] : n \in 0..MaxUnits }
DictsOfUnits ==
    { DictValue(k, Str(<<"a">>), u) :
        k \in SUBSET {"text", "content_units"}, u \in UnitLists }
PredictionsOfUnits == {StrValue(<<"a">>)} \cup DictsOfUnits
GroundTruthsOfUnits == {OtherValue} \cup DictsOfUnits

\* metric.calculate(prediction, ground_truth) is called on texts
TextInit ==
    /\ prediction \in PredictionsOfTexts
    /\ ground_truth \in GroundTruthsOfTexts
    /\ te_results = EmptyDict
    /\ te_pc = "called"

\* metric.calculate(prediction, ground_truth) is called on unit lists
UnitsInit ==
    /\ prediction \in PredictionsOfUnits
    /\ ground_truth \in GroundTruthsOfUnits
    /\ te_results = EmptyDict
    /\ te_pc = "called"

\* text_accuracy.py 14-75: calculate runs and returns results
Calculate ==
    /\ te_pc = "called"
    /\ te_results' = TextEditDistance_calculate(prediction, ground_truth)
    /\ te_pc' = "returned"
    /\ UNCHANGED <<prediction, ground_truth>>
    /\ UNCHANGED <<execVars, toolVars, metricVars, runsVars, loaderVars, driverVars>>

TextNext == Calculate

InitText ==
    ExecIdle /\ ToolIdle /\ MetricsIdle /\ TextInit /\ LoaderIdle /\ DriverIdle /\ RunsIdle

SpecText == InitText /\ [][TextNext]_vars

InitUnits ==
    ExecIdle /\ ToolIdle /\ MetricsIdle /\ UnitsInit /\ LoaderIdle /\ DriverIdle /\ RunsIdle

SpecUnits == InitUnits /\ [][TextNext]_vars

\* The prediction text p of the claims: the plain string, the text field of
\* a structured prediction, empty when absent.
ClaimedPredictionText ==
    IF prediction.type = "str" THEN prediction.text
    ELSE IF prediction.type = "dict" /\ "text" \in prediction.keys
    THEN prediction.text
    ELSE EmptyStr

\* The ground-truth text g of the claims: the text field, empty when absent.
ClaimedGroundTruthText ==
    IF ground_truth.type = "dict" /\ "text" \in ground_truth.keys
    THEN ground_truth.text
    ELSE EmptyStr

TextsAreStr ==
    ClaimedPredictionText.type = "str" /\ ClaimedGroundTruthText.type = "str"

\* C11: for every prediction text p and ground-truth text g, calculate returns
\* raw_text_distance equal to the Levenshtein distance between p and g; when
\* p == g (both empty included) raw_text_distance and normalized_distance are
\* both 0.0.
C11_EditDistance ==
    (te_pc = "returned" /\ TextsAreStr) =>
        LET p == ClaimedPredictionText.s
            g == ClaimedGroundTruthText.s
        IN  /\ "raw_text_distance" \in DOMAIN te_results
            /\ "normalized_distance" \in DOMAIN te_results
            /\ te_results["raw_text_distance"] = Float(EditDistance(p, g))
            /\ p = g =>
                /\ FloatEq(te_results["raw_text_distance"], Float(0))
                /\ FloatEq(te_results["normalized_distance"], Float(0))

\* calculate returned a non-zero distance for a structured prediction whose
\* text differs from the ground truth's
C11_Witness ==
    /\ te_pc = "returned"
    /\ TextsAreStr
    /\ prediction.type = "dict"
    /\ Len(ClaimedPredictionText.s) = 2
    /\ Len(ClaimedGroundTruthText.s) = 1
    /\ te_results["raw_text_distance"] = Float(2)

\* C12: normalized_distance equals raw_text_distance / max(len(gt_text), 1);
\* when the ground-truth text is empty, normalized equals raw equals the
\* length of the prediction text; the divisor is never zero.
C12_Normalization ==
    (te_pc = "returned" /\ TextsAreStr) =>
        LET p == ClaimedPredictionText.s
            g == ClaimedGroundTruthText.s
            raw == te_results["raw_text_distance"]
            normalized == te_results["normalized_distance"]
        IN  /\ normalized.den > 0
            /\ raw.den = 1
            /\ normalized.num * Max2(Len(g), 1) = raw.num * normalized.den
            /\ g = <<>> =>
                /\ FloatEq(normalized, raw)
                /\ FloatEq(raw, Float(Len(p)))

\* an empty ground-truth text scored against a prediction of two characters
C12_Witness ==
    /\ te_pc = "returned"
    /\ TextsAreStr
    /\ ClaimedGroundTruthText.s = <<>>
    /\ Len(ClaimedPredictionText.s) = 2
    /\ FloatEq(te_results["normalized_distance"], Float(2))

\* The unit texts of one side as the claim words them: the text of every
\* record entry, in order, entries that are not records left out.
RECURSIVE ClaimedUnitTexts(_)
ClaimedUnitTexts(units) ==
    IF units = <<>> THEN <<>>
    ELSE IF Head(units).type # "dict" THEN ClaimedUnitTexts(Tail(units))
    ELSE <<IF "text" \in Head(units).keys THEN Head(units).text.s ELSE <<>>>>
         \o ClaimedUnitTexts(Tail(units))

\* C13: unit_text_distance and unit_normalized_distance are in the result
\* exactly when both the prediction and the ground truth are structured
\* records with content_units; unit_text_distance is then the Levenshtein
\* distance between the newline-joined unit texts of the two sides, entries
\* that are not records skipped.
C13_UnitScoringTrigger ==
    te_pc = "returned" =>
        LET both == /\ prediction.type = "dict"
                    /\ "content_units" \in prediction.keys
                    /\ ground_truth.type = "dict"
                    /\ "content_units" \in ground_truth.keys
        IN  /\ ("unit_text_distance" \in DOMAIN te_results) <=> both
            /\ ("unit_normalized_distance" \in DOMAIN te_results) <=> both
            /\ both =>
                te_results["unit_text_distance"] =
                    Float(EditDistance(
                        JoinNL(ClaimedUnitTexts(prediction.content_units)),
                        JoinNL(ClaimedUnitTexts(ground_truth.content_units))))

\* both sides have units, the prediction's list holds an entry that is not a
\* record, and the unit distance is not zero
C13_Witness ==
    /\ te_pc = "returned"
    /\ "unit_text_distance" \in DOMAIN te_results
    /\ \E k \in DOMAIN prediction.content_units :
          prediction.content_units[k].type # "dict"
    /\ Len(ground_truth.content_units) = 2
    /\ te_results["unit_text_distance"].num > 0

\* ------------------------------------------------------ load_ground_truth
\* A ground-truth record: a JSON object with the keys `keys` out of text,
\* content_units and doc_id (any other key).
GtRecord(keys, t, units) ==
    [type |-> "dict", keys |-> keys,
     text |-> IF "text" \in keys THEN t ELSE PyNone,
     content_units |-> IF "content_units" \in keys THEN units ELSE <<>>]

\* run_evaluation.py 22: gt_data = {}
EmptyRecord == GtRecord({}, PyNone, <<>>)

\* The file at json_path: absent, not parseable as JSON, or holding a record.
NoFile == [exists |-> FALSE, parses |-> FALSE, record |-> EmptyRecord]
BrokenFile == [exists |-> TRUE, parses |-> FALSE, record |-> EmptyRecord]
FileOf(rec) == [exists |-> TRUE, parses |-> TRUE, record |-> rec]

GtFiles ==
    {NoFile, BrokenFile}
    \cup { FileOf(GtRecord(k, t, u)) :
             k \in SUBSET {"text", "content_units", "doc_id"},
             t \in {EmptyStr, Str(<<"a">>)},
             u \in UnitLists }

\* run_evaluation.py 30: [unit["text"] for unit in gt_data["content_units"]]
\* raises KeyError on a dict without text and TypeError on an entry that is
\* not a dict.
RECURSIVE UnitTextsStrict(_)
UnitTextsStrict(units) ==
    IF units = <<>> THEN [raised |-> "none", value |-> <<>>]
    ELSE LET u == Head(units)
             rest == UnitTextsStrict(Tail(units))
         IN  IF u.type # "dict" THEN [raised |-> "TypeError", value |-> <<>>]
             ELSE IF "text" \notin u.keys THEN [raised |-> "KeyError", value |-> <<>>]
             ELSE IF rest.raised # "none" THEN rest
             ELSE [raised |-> "none", value |-> <<u.text.s>> \o rest.value]

\* run_evaluation.py 33-34: the except branch prints and leaves gt_data as it
\* is, the record json.load returned.
AfterDeriveError(rec) == rec

\* run_evaluation.py 31, as a bug would have it: a text the file holds is
\* kept.
DerivedText_keepfile(rec, joined) ==
    IF "text" \in rec.keys THEN rec
    ELSE [rec EXCEPT !.keys = @ \cup {"text"}, !.text = Str(joined)]

\* run_evaluation.py 31: gt_data["text"] = concatenated_text
DerivedText(rec, joined) ==
    [rec EXCEPT !.keys = @ \cup {"text"}, !.text = Str(joined)]

\* run_evaluation.py 15-39: load_ground_truth(gt_base_path, pdf_filename)
LoadGroundTruth(file) ==
    IF ~file.exists THEN EmptyRecord
    ELSE IF ~file.parses THEN EmptyRecord
    ELSE IF "content_units" \in file.record.keys
    THEN LET texts == UnitTextsStrict(file.record.content_units)
         IN  IF texts.raised # "none" THEN AfterDeriveError(file.record)
             ELSE DerivedText(file.record, JoinNL(texts.value))
    ELSE file.record

\* load_ground_truth is called for a document
LoaderInit ==
    /\ gt_file \in GtFiles
    /\ gt_data = None
    /\ gt_pc = "called"

\* run_evaluation.py 15-39: the call returns gt_data
LoadReturns ==
    /\ gt_pc = "called"
    /\ gt_data' = LoadGroundTruth(gt_file)
    /\ gt_pc' = "returned"
    /\ UNCHANGED gt_file
    /\ UNCHANGED <<execVars, toolVars, metricVars, runsVars, textVars, driverVars>>

LoaderNext == LoadReturns

InitLoader ==
    ExecIdle /\ ToolIdle /\ MetricsIdle /\ TextIdle /\ LoaderInit /\ DriverIdle /\ RunsIdle

SpecLoader == InitLoader /\ [][LoaderNext]_vars

\* C14: every record load_ground_truth returns that contains content_units
\* has a text field equal to the unit texts joined with newlines in unit
\* order, also when deriving the text hit an error (a unit without text).
C14_GroundTruthSync ==
    (gt_pc = "returned" /\ "content_units" \in gt_data.keys) =>
        /\ "text" \in gt_data.keys
        /\ gt_data.text = Str(JoinNL(ClaimedUnitTexts(gt_data.content_units)))

\* ------------------------------------------------ executor: skipped stages
\* The frame of a skip (run lines 71-73): in a returned run in which no tool
\* call and no tool resolution failed, no call belongs to a stage without a
\* locator, every stage with a locator was called, and the stage results and
\* totals are those of the calls alone.
SkipFrame ==
    /\ \A j \in 1..Len(calls) : ~MissingLocator(executor.stages[calls[j].stage])
    /\ \A k \in 1..Len(executor.stages) :
          ~MissingLocator(executor.stages[k]) => k \in StagesCompleted
    /\ Len(result.stages) = Len(calls)
    /\ \A j \in 1..Len(calls) : result.stages[j] = ResultOfCall(calls[j])
    /\ result.final_output = LastOutput(result.stages)

\* C15: a stage missing a tool locator is skipped as a no-op that does not
\* fail the run: no tool is resolved or invoked for it, the data, the stage
\* results and the totals are left as they were, the following stages still
\* execute, and a run in which nothing failed is not reported as failed.
C15_SkipDoesNotFail ==
    (pc = "returned" /\ FirstRaise = 0 /\ resolve_failed = 0) =>
        /\ SkipFrame
        /\ result.success = TRUE

\* ------------------------------------------------------------------- main
\* Bounds of an evaluation run.
MaxPipelines == 2
MaxDocs == 2

\* eval_config['dataset_categories']
DatasetCategories == <<"c1", "c2">>

\* pdf_limit_per_category: None, or a number
NoLimit == [is_none |-> TRUE, n |-> 0]
LimitOf(n) == [is_none |-> FALSE, n |-> n]

\* What PipelineExecutor(pipeline_config_path) does on a file of
\* pipelines_to_run (executor.py 15-22): returns, or raises FileNotFoundError
\* (the file is gone), yaml.YAMLError (yaml.safe_load on malformed YAML) or
\* ValueError (empty, or without pipeline_name or stages).
PipelineFiles == {"valid", "missing", "malformed", "invalid"}
ConstructError(file) ==
    CASE file = "valid" -> "none"
      [] file = "missing" -> "FileNotFoundError"
      [] file = "malformed" -> "YAMLError"
      [] file = "invalid" -> "ValueError"

\* run_evaluation.py 215: except (FileNotFoundError, ValueError, ImportError)
DriverCatches(err) == err \in {"FileNotFoundError", "ValueError", "ImportError"}

\* The ground-truth file main finds for a document.
DriverGtFiles ==
    {NoFile, BrokenFile, FileOf(EmptyRecord),
     FileOf(GtRecord({"text"}, Str(<<"a">>), <<>>)),
     FileOf(GtRecord({"content_units"}, PyNone, <<UnitWithoutText>>))}

\* run_evaluation.py 193, as a bug would have it: the check is not made.
GroundTruthMissing_never(gt) == FALSE

\* run_evaluation.py 193: not ground_truth
GroundTruthMissing(gt) == gt.keys = {}

\* run_evaluation.py 193-197, as a bug would have it: a document passed over
\* for want of ground truth counts against the limit.
LimitAfterSkip_counted(l) == IF l.is_none THEN l ELSE LimitOf(l.n - 1)

\* run_evaluation.py 193-197: the continue comes before limit -= 1 (211-212),
\* the limit is as it was.
LimitAfterSkip(l) == l

\* run_evaluation.py 200-204, as a bug would have it: the metrics are
\* calculated before the pipeline is run.
AfterGroundTruth_score == "score"

\* run_evaluation.py 199-200: with ground truth, the pipeline is run next.
AfterGroundTruth == "run"

\* What executor.run returns to main (executor.py 101-108): it never raises.
\* The latency and the output take the ends of their ranges.
RunOutcomes ==
    [success : BOOLEAN, total_cost : 0..MaxCost, total_latency : {0, MaxElapsed},
     final_output : {0, MaxData}]

\* pipeline_result before the first executor.run of main returned.
NoRunYet ==
    [success |-> FALSE, total_cost |-> 0, total_latency |-> 0, final_output |-> 0]

\* run_evaluation.py 207: the fourth argument of save_results is
\* pdf_path.name, a str.
PdfFilename == [type |-> "str"]

\* save_results (run_evaluation.py 79-115): line 82 reads pdf_filename.stem,
\* which a str does not have (AttributeError); otherwise the files are
\* written and the metadata returned.
SaveResults(pipeline_name, pdf_filename, pipeline_output, metrics_output) ==
    IF pdf_filename.type # "Path"
    THEN [raised |-> "AttributeError", metadata |-> <<>>]
    ELSE [raised |-> "none",
          metadata |-> [pipeline_name |-> pipeline_name,
                        total_cost |-> pipeline_output.total_cost,
                        total_latency |-> pipeline_output.total_latency,
                        success |-> pipeline_output.success,
                        metrics |-> metrics_output]]

\* calculate_all_metrics(metrics, prediction_output, ground_truth) as main
\* uses it (run_evaluation.py 203-204): it returns a mapping and never raises.
MetricsOn(prediction_output, gt) == [prediction |-> prediction_output, gt |-> gt]

\* An entry of the history: what was done for document k of category c under
\* pipeline p (c and k are 0 for a step of the pipeline as a whole).
Event(ev, info) == [ev |-> ev, p |-> d_p, c |-> d_c, k |-> d_k, info |-> info]

\* main is called.
DriverInit ==
    /\ run_cfg \in [pipelines : 0..MaxPipelines,
                    docs : [DOMAIN DatasetCategories -> 0..MaxDocs],
                    pdf_limit : {NoLimit} \cup { LimitOf(n) : n \in 0..MaxDocs },
                    metrics_loaded : BOOLEAN]
    /\ d_pc = "start"
    /\ d_p = 0
    /\ d_c = 0
    /\ d_k = 0
    /\ limit = NoLimit
    /\ doc_gt = None
    /\ pipeline_result = NoRunYet
    /\ metrics_result = None
    /\ all_aggregated_results = <<>>
    /\ summary = FALSE
    /\ main_raised = "none"
    /\ d_log = <<>>

\* run_evaluation.py 133-160: main returns early without metrics or without
\* pipelines, else enters the pipeline loop
DriverStart ==
    /\ d_pc = "start"
    /\ IF ~run_cfg.metrics_loaded \/ run_cfg.pipelines = 0
       THEN d_pc' = "done" /\ d_p' = d_p
       ELSE d_pc' = "pipeline" /\ d_p' = 1
    /\ UNCHANGED <<run_cfg, d_c, d_k, limit, doc_gt, pipeline_result,
                   metrics_result, all_aggregated_results, summary,
                   main_raised, d_log>>
    /\ UNCHANGED <<execVars, toolVars, metricVars, runsVars, textVars, loaderVars>>

\* run_evaluation.py 162-164, 215-217: the executor of the next pipeline is
\* constructed; an error the except clause names moves on to the next
\* pipeline, any other error leaves main
PipelineConstruct ==
    /\ d_pc = "pipeline"
    /\ d_p <= run_cfg.pipelines
    /\ \E file \in PipelineFiles :
          LET err == ConstructError(file)
          IN  /\ d_log' = Append(d_log, [ev |-> "construct", p |-> d_p, c |-> 0,
                                         k |-> 0, info |-> err])
              /\ IF err = "none"
                 THEN d_pc' = "category" /\ d_c' = 1 /\ d_p' = d_p
                      /\ main_raised' = main_raised
                 ELSE IF DriverCatches(err)
                 THEN d_pc' = "pipeline" /\ d_c' = 0 /\ d_p' = d_p + 1
                      /\ main_raised' = main_raised
                 ELSE d_pc' = "aborted" /\ d_c' = 0 /\ d_p' = d_p
                      /\ main_raised' = err
    /\ d_k' = 0
    /\ UNCHANGED <<run_cfg, limit, doc_gt, pipeline_result, metrics_result,
                   all_aggregated_results, summary>>
    /\ UNCHANGED <<execVars, toolVars, metricVars, runsVars, textVars, loaderVars>>

\* run_evaluation.py 170-178: the next category; limit = pdf_limit; a category
\* without documents is passed over
CategoryNext ==
    /\ d_pc = "category"
    /\ d_c <= Len(DatasetCategories)
    /\ limit' = run_cfg.pdf_limit
    /\ IF run_cfg.docs[d_c] = 0
       THEN d_pc' = "category" /\ d_c' = d_c + 1 /\ d_k' = 0
       ELSE d_pc' = "doc" /\ d_c' = d_c /\ d_k' = 1
    /\ UNCHANGED <<run_cfg, d_p, doc_gt, pipeline_result, metrics_result,
                   all_aggregated_results, summary, main_raised, d_log>>
    /\ UNCHANGED <<execVars, toolVars, metricVars, runsVars, textVars, loaderVars>>

\* run_evaluation.py 162, 170: the categories are exhausted, the pipeline
\* loop goes on
CategoriesDone ==
    /\ d_pc = "category"
    /\ d_c > Len(DatasetCategories)
    /\ d_pc' = "pipeline"
    /\ d_p' = d_p + 1
    /\ d_c' = 0
    /\ d_k' = 0
    /\ UNCHANGED <<run_cfg, limit, doc_gt, pipeline_result, metrics_result,
                   all_aggregated_results, summary, main_raised, d_log>>
    /\ UNCHANGED <<execVars, toolVars, metricVars, runsVars, textVars, loaderVars>>

\* run_evaluation.py 180-182: the documents of the category are exhausted or
\* the limit is used up
DocsDone ==
    /\ d_pc = "doc"
    /\ \/ d_k > run_cfg.docs[d_c]
       \/ (~limit.is_none /\ limit.n <= 0)
    /\ d_pc' = "category"
    /\ d_c' = d_c + 1
    /\ d_k' = 0
    /\ UNCHANGED <<run_cfg, d_p, limit, doc_gt, pipeline_result, metrics_result,
                   all_aggregated_results, summary, main_raised, d_log>>
    /\ UNCHANGED <<execVars, toolVars, metricVars, runsVars, textVars, loaderVars>>

\* run_evaluation.py 192-197: the ground truth of the document is loaded;
\* without ground truth the document is passed over
DocLoad ==
    /\ d_pc = "doc"
    /\ d_k <= run_cfg.docs[d_c]
    /\ limit.is_none \/ limit.n > 0
    /\ \E file \in DriverGtFiles :
          LET gt == LoadGroundTruth(file)
          IN  /\ doc_gt' = gt
              /\ d_log' = Append(d_log, Event("load", gt))
              /\ IF GroundTruthMissing(gt)
                 THEN /\ d_pc' = "doc" /\ d_k' = d_k + 1
                      /\ limit' = LimitAfterSkip(limit)
                 ELSE /\ d_pc' = AfterGroundTruth /\ d_k' = d_k
                      /\ limit' = limit
    /\ UNCHANGED <<run_cfg, d_p, d_c, pipeline_result, metrics_result,
                   all_aggregated_results, summary, main_raised>>
    /\ UNCHANGED <<execVars, toolVars, metricVars, runsVars, textVars, loaderVars>>

\* run_evaluation.py 200: executor.run is called
RunBegin ==
    /\ d_pc = "run"
    /\ d_pc' = "running"
    /\ d_log' = Append(d_log, Event("run_begin", <<>>))
    /\ UNCHANGED <<run_cfg, d_p, d_c, d_k, limit, doc_gt, pipeline_result,
                   metrics_result, all_aggregated_results, summary, main_raised>>
    /\ UNCHANGED <<execVars, toolVars, metricVars, runsVars, textVars, loaderVars>>

\* run_evaluation.py 200: executor.run returns pipeline_result
RunEnd ==
    /\ d_pc = "running"
    /\ \E r \in RunOutcomes :
          /\ pipeline_result' = r
          /\ d_log' = Append(d_log, Event("run_end", r))
    /\ d_pc' = "score"
    /\ UNCHANGED <<run_cfg, d_p, d_c, d_k, limit, doc_gt, metrics_result,
                   all_aggregated_results, summary, main_raised>>
    /\ UNCHANGED <<execVars, toolVars, metricVars, runsVars, textVars, loaderVars>>

\* run_evaluation.py 203-204: the metrics are calculated on final_output
DocMetrics ==
    /\ d_pc = "score"
    /\ LET prediction_output == pipeline_result.final_output
       IN  /\ metrics_result' = MetricsOn(prediction_output, doc_gt)
           /\ d_log' = Append(d_log, Event("metrics", prediction_output))
    /\ d_pc' = "save"
    /\ UNCHANGED <<run_cfg, d_p, d_c, d_k, limit, doc_gt, pipeline_result,
                   all_aggregated_results, summary, main_raised>>
    /\ UNCHANGED <<execVars, toolVars, metricVars, runsVars, textVars, loaderVars>>

\* run_evaluation.py 207-212, 215-217: save_results is called; when it
\* returns the record is aggregated and the limit counted down; an error of
\* save_results that the except clause does not name leaves main
DocSave ==
    /\ d_pc = "save"
    /\ LET s == SaveResults(d_p, PdfFilename, pipeline_result, metrics_result)
       IN  /\ d_log' = Append(d_log, Event("save", s.raised))
           /\ IF s.raised = "none"
              THEN /\ all_aggregated_results' =
                        Append(all_aggregated_results,
                               [doc |-> <<d_p, d_c, d_k>>, metadata |-> s.metadata])
                   /\ limit' = IF limit.is_none THEN limit ELSE LimitOf(limit.n - 1)
                   /\ d_pc' = "doc" /\ d_p' = d_p /\ d_c' = d_c /\ d_k' = d_k + 1
                   /\ main_raised' = main_raised
              ELSE IF DriverCatches(s.raised)
              THEN /\ d_pc' = "pipeline" /\ d_p' = d_p + 1 /\ d_c' = 0 /\ d_k' = 0
                   /\ UNCHANGED <<all_aggregated_results, limit, main_raised>>
              ELSE /\ d_pc' = "aborted" /\ main_raised' = s.raised
                   /\ UNCHANGED <<all_aggregated_results, limit, d_p, d_c, d_k>>
    /\ UNCHANGED <<run_cfg, doc_gt, pipeline_result, metrics_result, summary>>
    /\ UNCHANGED <<execVars, toolVars, metricVars, runsVars, textVars, loaderVars>>

\* run_evaluation.py 219-229: after the pipeline loop the summary is written
\* when there is a result, and main returns
DriverFinish ==
    /\ d_pc = "pipeline"
    /\ d_p > run_cfg.pipelines
    /\ summary' = (all_aggregated_results # <<>>)
    /\ d_pc' = "done"
    /\ UNCHANGED <<run_cfg, d_p, d_c, d_k, limit, doc_gt, pipeline_result,
                   metrics_result, all_aggregated_results, main_raised, d_log>>
    /\ UNCHANGED <<execVars, toolVars, metricVars, runsVars, textVars, loaderVars>>

DriverNext ==
    \/ DriverStart
    \/ PipelineConstruct
    \/ CategoryNext
    \/ CategoriesDone
    \/ DocsDone
    \/ DocLoad
    \/ RunBegin
    \/ RunEnd
    \/ DocMetrics
    \/ DocSave
    \/ DriverFinish

InitDriver ==
    /\ ExecIdle /\ ToolIdle /\ MetricsIdle /\ TextIdle /\ LoaderIdle /\ DriverInit
    /\ RunsIdle

SpecDriver == InitDriver /\ [][DriverNext]_vars

\* -------------------------------------------------- main: the properties
Terminated == d_pc \in {"done", "aborted"}

\* The records aggregated for document k of category c under pipeline p.
RecordsOf(p, c, k) ==
    SelectSeq(all_aggregated_results, LAMBDA r : r.doc = <<p, c, k>>)

\* The positions of the history that are about the same document as j.
SameDoc(j, l) ==
    d_log[j].p = d_log[l].p /\ d_log[j].c = d_log[l].c /\ d_log[j].k = d_log[l].k

\* C16: for every document with ground truth whose pipeline run ended with a
\* stage failure, when main has ended the metrics were calculated on the
\* partial final_output, exactly one record is aggregated for the pipeline
\* and document, with success false and the totals of the run, and main
\* ended by returning, having gone through the remaining documents and
\* pipelines.
C16_PartialResultsKept ==
    Terminated =>
        \A j \in 1..Len(d_log) :
            (d_log[j].ev = "run_end" /\ ~d_log[j].info.success) =>
                LET e == d_log[j]
                    recs == RecordsOf(e.p, e.c, e.k)
                IN  /\ \E l \in (j + 1)..Len(d_log) :
                          /\ SameDoc(j, l)
                          /\ d_log[l].ev = "metrics"
                          /\ d_log[l].info = e.info.final_output
                    /\ Len(recs) = 1
                    /\ recs[1].metadata.success = FALSE
                    /\ recs[1].metadata.total_cost = e.info.total_cost
                    /\ recs[1].metadata.total_latency = e.info.total_latency
                    /\ d_pc = "done"
                    /\ main_raised = "none"

\* C17: when the construction of a pipeline's executor failed with a
\* configuration error, main still ends by returning: every pipeline after it
\* was taken up, and the summary was written when there is a result.
C17_SetupErrorsAbortOnePipeline ==
    (Terminated /\ \E j \in 1..Len(d_log) :
                      d_log[j].ev = "construct" /\ d_log[j].info # "none") =>
        /\ d_pc = "done"
        /\ main_raised = "none"
        /\ \A p \in 1..run_cfg.pipelines :
              \E j \in 1..Len(d_log) : d_log[j].ev = "construct" /\ d_log[j].p = p
        /\ all_aggregated_results # <<>> => summary

\* C18: for a document whose ground truth is absent or loads into an empty
\* record, no pipeline run, no metric and no persistence happens and no
\* record is aggregated, and main goes on with the next document.
C18_MissingGroundTruth ==
    \A j \in 1..Len(d_log) :
        (d_log[j].ev = "load" /\ d_log[j].info.keys = {}) =>
            /\ \A l \in 1..Len(d_log) : SameDoc(j, l) => l = j
            /\ RecordsOf(d_log[j].p, d_log[j].c, d_log[j].k) = <<>>
            /\ IF j = Len(d_log)
               THEN /\ main_raised = "none"
                    /\ d_pc \in {"doc", "category", "pipeline", "done"}
                    /\ (d_pc = "doc" /\ d_p = d_log[j].p /\ d_c = d_log[j].c) =>
                          d_k = d_log[j].k + 1
               ELSE d_log[j + 1].ev \in {"load", "construct"}

\* a document without ground truth was passed over and the one after it is
\* being run
C18_Witness ==
    /\ d_pc = "running"
    /\ d_k = 2
    /\ \E j \in 1..Len(d_log) :
          /\ d_log[j].ev = "load" /\ d_log[j].info.keys = {}
          /\ d_log[j].p = d_p /\ d_log[j].c = d_c /\ d_log[j].k = 1

\* The place of a step within the processing of one document.
Rank(ev) ==
    CASE ev = "construct" -> 0
      [] ev = "load" -> 1
      [] ev = "run_begin" -> 2
      [] ev = "run_end" -> 3
      [] ev = "metrics" -> 4
      [] ev = "save" -> 5

\* (p1, c1, k1) comes before (p2, c2, k2) in the order of the three loops.
Before(a, b) ==
    \/ a.p < b.p
    \/ a.p = b.p /\ a.c < b.c
    \/ a.p = b.p /\ a.c = b.c /\ a.k < b.k

\* C19: for each document the pipeline run finishes before a metric is
\* calculated, the metrics and the persistence of a document come before
\* the run of the next document begins, and every document of a pipeline
\* comes before any document of the next pipeline: the steps of main are in
\* the order of the three loops and, within a document, in the order load,
\* run, metrics, persistence, none of them left out.
C19_SequentialOrder ==
    /\ \A j \in 1..Len(d_log), l \in 1..Len(d_log) :
          j < l =>
              \/ Before(d_log[j], d_log[l])
              \/ SameDoc(j, l) /\ Rank(d_log[j].ev) < Rank(d_log[l].ev)
    /\ \A l \in 1..Len(d_log) :
          Rank(d_log[l].ev) > 1 =>
              /\ l > 1
              /\ SameDoc(l - 1, l)
              /\ Rank(d_log[l - 1].ev) = Rank(d_log[l].ev) - 1

\* under the second pipeline the metrics of a document are calculated, after
\* a document of the first pipeline was taken up
C19_Witness ==
    /\ d_pc = "save"
    /\ d_p = 2
    /\ \E j \in 1..Len(d_log) : d_log[j].ev = "load" /\ d_log[j].p = 1
    /\ d_log[Len(d_log)].ev = "metrics"
    /\ d_log[Len(d_log) - 1].ev = "run_end"

\* ------------------------------- calculate_all_metrics: order of the metrics
\* calculate_all_metrics lines 63-77 on a list ms, going on from the mapping
\* results: what the call returns.
RECURSIVE CalculateAllMetrics(_, _)
CalculateAllMetrics(ms, results) ==
    IF ms = <<>> THEN results
    ELSE LET metric == Head(ms)
         IN  CalculateAllMetrics(
                 Tail(ms),
                 IF metric.raises THEN MetricFailed(results, metric.name)
                 ELSE MetricScored(results, metric.name, metric.score))

\* The rearrangements of a list of n entries.
Rearrangements(n) ==
    { f \in [1..n -> 1..n] : \A k, l \in 1..n : f[k] = f[l] => k = l }

\* The last position of the list that carries the name.
LastNamed(name) ==
    CHOOSE k \in 1..Len(metrics) :
        /\ metrics[k].name = name
        /\ \A l \in (k + 1)..Len(metrics) : metrics[l].name # name

\* C20: the metrics are invoked in declared order; when their names are
\* pairwise distinct, the list in any other order yields the same mapping
\* from names to results; when metrics share a name, the mapping holds the
\* result of the last of them.
C20_OrderIndependence ==
    m_pc = "returned" =>
        /\ m_calls = [k \in 1..Len(metrics) |-> k]
        /\ DistinctNames =>
              \A f \in Rearrangements(Len(metrics)) :
                  CalculateAllMetrics([k \in 1..Len(metrics) |-> metrics[f[k]]],
                                      EmptyDict) = metric_results
        /\ \A name \in DOMAIN metric_results :
              metric_results[name] = OutcomeOf(LastNamed(name))

\* three metrics, the first two under one name with different outcomes, have
\* been calculated: the mapping holds the second metric's result
C20_Witness ==
    /\ m_pc = "returned"
    /\ Len(metrics) = 3
    /\ metrics[1].name = metrics[2].name
    /\ metrics[3].name # metrics[1].name
    /\ metrics[1].raises /\ ~metrics[2].raises
    /\ metric_results[metrics[1].name] = Score(metrics[2].score)

\* ------------------------------------- load_ground_truth: the derived text
\* Every entry of the list is a record with a text.
AllUnitsHaveText(units) ==
    \A k \in 1..Len(units) : units[k].type = "dict" /\ "text" \in units[k].keys

\* C21 (as claimed): the text is computed from content_units only if the
\* loaded record has no text field; a text field the record has is left
\* unchanged.
C21_TextDerivedOnlyWhenAbsent ==
    (gt_pc = "returned" /\ gt_file.exists /\ gt_file.parses) =>
        LET rec == gt_file.record
        IN  /\ "text" \in rec.keys =>
                  "text" \in gt_data.keys /\ gt_data.text = rec.text
            /\ ("text" \notin rec.keys /\ "content_units" \in rec.keys
                /\ AllUnitsHaveText(rec.content_units)) =>
                  /\ "text" \in gt_data.keys
                  /\ gt_data.text = Str(JoinNL(ClaimedUnitTexts(rec.content_units)))

\* C21 (amended): when the loaded record has content_units and every unit has
\* a text, the text field is set to the newline-joined unit texts whether or
\* not the record had a text field; the record is returned as loaded, a text
\* field it has included, only when it has no content_units or the derivation
\* hits an error; nothing but the text field is ever changed.
C21_TextDerivedWheneverUnits ==
    (gt_pc = "returned" /\ gt_file.exists /\ gt_file.parses) =>
        LET rec == gt_file.record
        IN  IF "content_units" \in rec.keys /\ AllUnitsHaveText(rec.content_units)
            THEN /\ gt_data.keys = rec.keys \cup {"text"}
                 /\ gt_data.text = Str(JoinNL(ClaimedUnitTexts(rec.content_units)))
                 /\ gt_data.content_units = rec.content_units
            ELSE gt_data = rec

\* a record whose own text differs from its joined unit texts was loaded: the
\* returned text is the joined one
C21_Witness ==
    /\ gt_pc = "returned"
    /\ gt_file.exists /\ gt_file.parses
    /\ "text" \in gt_file.record.keys
    /\ gt_file.record.text = Str(<<"a">>)
    /\ Len(gt_file.record.content_units) = 2
    /\ gt_data.text = Str(<<"b", NL, "a">>)

\* ------------------------- TextEditDistance.calculate: no ground-truth text
\* The ground truth gives no signal: it is not a record, or has no text.
NoSignal == ground_truth.type # "dict" \/ "text" \notin ground_truth.keys

\* C22: when the ground truth is not a structured record or has no text
\* field, calculate returns (it does not raise) a mapping with both
\* raw_text_distance and normalized_distance, computed against an empty
\* ground-truth text: both equal the length of the prediction text, 0.0 when
\* the prediction text is empty too.
C22_NoSignalGroundTruth ==
    (te_pc = "returned" /\ NoSignal /\ ClaimedPredictionText.type = "str") =>
        LET p == ClaimedPredictionText.s
        IN  /\ "raw_text_distance" \in DOMAIN te_results
            /\ "normalized_distance" \in DOMAIN te_results
            /\ FloatEq(te_results["raw_text_distance"], Float(Len(p)))
            /\ FloatEq(te_results["normalized_distance"], Float(Len(p)))

\* a prediction of two characters was scored against a ground truth that is
\* not a record
C22_Witness ==
    /\ te_pc = "returned"
    /\ ground_truth.type # "dict"
    /\ ClaimedPredictionText.type = "str"
    /\ Len(ClaimedPredictionText.s) = 2
    /\ te_results["normalized_distance"] = [num |-> 2, den |-> 1]

\* ------------------------------------- successive runs of one executor
\* Bound of the pipelines that are run repeatedly.
MaxRunStages == 2

\* The pipeline definitions of at most MaxRunStages stages.
RunSources ==
    { src \in Sources : src.exists /\ Len(src.config.stages) <= MaxRunStages }

\* An executor is about to be constructed from one of them.
RunsInit ==
    /\ source \in RunSources
    /\ executor = NoExecutor
    /\ ctor_error = "none"
    /\ pc = "new"
    /\ i = 1
    /\ initial_input = 0
    /\ current_data = 0
    /\ stage_results = <<>>
    /\ total_cost = 0
    /\ total_latency = 0
    /\ run_raised = "none"
    /\ result = NoResult
    /\ calls = <<>>
    /\ resolve_failed = 0

\* The caller has the returned dictionary and calls run again on the same
\* executor (run_evaluation.py 164, 180-200: one executor for all documents
\* of a pipeline).  Nothing the finished call left is cleared here: what the
\* next call starts from is decided by run itself.
ResultKept ==
    /\ pc = "returned"
    /\ pc' = "ready"
    /\ prev_run' = [ran |-> TRUE, success |-> result.success,
                    spent |-> result.total_cost > 0]
    /\ UNCHANGED <<source, executor, ctor_error, i, initial_input, current_data,
                   stage_results, total_cost, total_latency, run_raised, result,
                   calls, resolve_failed>>
    /\ UNCHANGED <<toolVars, metricVars, textVars, loaderVars, driverVars>>

RunsNext ==
    \/ Construct
    \/ RunStart
    \/ StageSkip
    \/ StageResolveFail
    \/ StageRunOk
    \/ StageRunFail
    \/ RunReturn
    \/ ResultKept

InitRuns ==
    /\ RunsInit /\ ToolIdle /\ MetricsIdle /\ TextIdle /\ LoaderIdle /\ DriverIdle
    /\ RunsIdle

SpecRuns == InitRuns /\ [][RunsNext]_vars

\* What the tool of one call did, apart from its output: whether it raised,
\* the cost it left on the instance and the latency it reported.
Behaviour(c) == <<c.raised, c.spent, IF c.raised THEN 0 ELSE c.ret[3]>>

\* The result a run has to return when it is determined by the executor, the
\* input and the behaviours of the tools alone: the stages named by the calls
\* cs are applied in order to data, stage results collected in acc.
RECURSIVE ResultFor(_, _, _)
ResultFor(cs, data, acc) ==
    IF cs = <<>> \/ Behaviour(Head(cs))[1]
    THEN [pipeline_name |-> executor.pipeline_name,
          final_output |-> data,
          stages |-> acc,
          total_cost |-> SumOver(acc, "cost"),
          total_latency |-> SumOver(acc, "latency"),
          success |-> Len(acc) = Len(executor.stages)]
    ELSE LET b == Behaviour(Head(cs))
             k == Head(cs).stage
             out == Process(executor.stages[k].tool_class, data)
         IN  ResultFor(Tail(cs), out,
                       Append(acc, StageResult(StageName(executor.stages[k], k),
                                               <<out, b[2], b[3]>>)))

\* C23: run leaves the executor's pipeline name and stage list unchanged and
\* carries nothing from one invocation to the next: after an earlier run,
\* failed ones included, a run starts with no stage results and zero totals,
\* and what it returns is determined by its input and the behaviours of its
\* tools, so that two runs alike in these return equal results.
C23_RunsIndependent ==
    prev_run.ran =>
        /\ executor.pipeline_name = source.config.pipeline_name
        /\ executor.stages = source.config.stages
        /\ (pc = "loop" /\ calls = <<>>) =>
              /\ stage_results = <<>>
              /\ total_cost = 0
              /\ total_latency = 0
              /\ current_data = initial_input
        /\ pc = "returned" => result = ResultFor(calls, initial_input, <<>>)

\* after a failed run that had accrued cost, a run of two stages has returned
\* successfully
C23_Witness ==
    /\ prev_run.ran
    /\ ~prev_run.success
    /\ prev_run.spent
    /\ pc = "returned"
    /\ Len(calls) = 2
    /\ result.success
    /\ result.total_cost = 0

\* ------------------------------------------- main: the per-category limit
\* The steps of kind ev recorded for the documents of category c under
\* pipeline p.
StepsOf(ev, p, c) ==
    { j \in 1..Len(d_log) : d_log[j].ev = ev /\ d_log[j].p = p /\ d_log[j].c = c }

\* The records aggregated for the documents of category c under pipeline p.
SavedIn(p, c) ==
    { j \in 1..Len(all_aggregated_results) :
        all_aggregated_results[j].doc[1] = p /\ all_aggregated_results[j].doc[2] = c }

\* C24: with a per-category limit L configured, for each pipeline and each
\* category at most L documents are run, scored and persisted; while main is
\* within a category the limit left is L less the documents persisted in this
\* category under this pipeline, so it starts at L in every category of every
\* pipeline and a document passed over for want of ground truth does not
\* count.
C24_PerCategoryLimit ==
    (d_pc # "start" /\ ~run_cfg.pdf_limit.is_none) =>
        LET L == run_cfg.pdf_limit.n
        IN  /\ \A p \in 1..run_cfg.pipelines, c \in DOMAIN DatasetCategories :
                  /\ Cardinality(StepsOf("run_begin", p, c)) <= L
                  /\ Cardinality(StepsOf("metrics", p, c)) <= L
                  /\ Cardinality(SavedIn(p, c)) <= L
            /\ d_pc \in {"doc", "run", "running", "score", "save"} =>
                  /\ ~limit.is_none
                  /\ limit.n = L - Cardinality(SavedIn(d_p, d_c))

\* with a limit of one, in the second category, the first document was
\* passed over for want of ground truth and the second one is being run
C24_Witness ==
    /\ d_pc = "running"
    /\ run_cfg.pdf_limit = LimitOf(1)
    /\ d_c = 2
    /\ d_k = 2
    /\ limit = LimitOf(1)
    /\ \E j \in 1..Len(d_log) :
          /\ d_log[j].ev = "load" /\ d_log[j].info.keys = {}
          /\ d_log[j].p = d_p /\ d_log[j].c = 1

====
